---- MODULE Spec2Model ----
(***************************************************************************)
(* Model of src/audio-quality-improvement-module.py: the orchestrator      *)
(* preprocess_audio and the stage functions estimate_noise_spectrum,       *)
(* improve_signal_to_noise, spectral_gate and apply_dynamic_compression.   *)
(*                                                                         *)
(* Numbers.  Samples and magnitudes are fixed-point integers counted in    *)
(* units of 1/Unit (Unit = 1000, so 1000 stands for 1.0).  A mean is kept  *)
(* as an exact fraction [num, den]; the mean of an empty slice, which      *)
(* numpy returns as NaN, is the fraction with den = 0.  Decibels are whole *)
(* dB.                                                                     *)
(*                                                                         *)
(* Library calls.  librosa.load, librosa.effects.trim, librosa.stft/istft, *)
(* librosa.util.normalize and scipy.signal.medfilt are not code of the     *)
(* module.  In the orchestrator a waveform is the decoded samples plus the *)
(* list of stages applied to them, so a stage is an opaque deterministic   *)
(* function of its input.  The stage functions are modelled on the         *)
(* magnitude grid (after stft) and on the sample stream.                   *)
(***************************************************************************)
EXTENDS Integers, Sequences, FiniteSets, TLC

VARIABLES
    pc,            \* position in the function under execution
    cfg,           \* arguments of preprocess_audio: sr and the five flags
    loaded,        \* what librosa.load returned: [audio, sr]
    audio,         \* local variable audio
    sr,            \* local variable sr of preprocess_audio
    module_sr,     \* the module-level name sr as apply_dynamic_compression sees it
    started,       \* stages entered so far, each with the waveform it was given
    finished,      \* stages that returned so far, each with the waveform it returned
    D,             \* spectrogram D[bin][frame], values on the real axis
    mag,           \* magnitude spectrogram: mag[bin][frame]
    phase,         \* phase of D: 1 for angle 0, -1 for angle pi
    p,             \* percentile argument of estimate_noise_spectrum, in percent
    noise_spec,    \* per-bin noise estimate, a fraction per bin
    mag_subtracted,\* spectral subtraction result
    H,             \* Wiener gain, a fraction per bin and frame
    mag_filtered,  \* mag * H, a fraction per bin and frame
    thresh,        \* gate threshold, a fraction
    gated,         \* magnitude grid after the gate mask
    args,          \* arguments of apply_dynamic_compression
    alpha_a,       \* attack coefficient, in units of 1/AlphaScale
    alpha_r,       \* release coefficient, in units of 1/AlphaScale
    i,             \* loop index of the envelope loop (Python index)
    env,           \* compressor envelope
    gain_db,       \* per-sample gain in dB
    gain_linear,   \* per-sample linear gain, in units of 1/Unit
    result         \* value returned by the function under execution

vars == <<pc, cfg, loaded, audio, sr, module_sr, started, finished, D, mag, phase,
          p, noise_spec,
          mag_subtracted, H, mag_filtered, thresh, gated, args, alpha_a, alpha_r,
          i, env, gain_db, gain_linear, result>>

pipelineVars == <<cfg, loaded, audio, sr, module_sr, started, finished>>
spectralVars == <<D, mag, phase, p, noise_spec, mag_subtracted, H, mag_filtered, thresh, gated>>
compressorVars == <<args, alpha_a, alpha_r, i, env, gain_db, gain_linear>>

----------------------------------------------------------------------------
(* Representation *)

Unit == 10 * 100                 \* fixed-point scale: Unit stands for 1.0
Idle == <<>>                     \* value of a variable the running function does not use
Undefined == <<>>                \* a name with no binding (NameError on read)
Bound(v) == <<v>>                \* a name bound to v
ValueOf(name) == name[1]

Abs(x) == IF x < 0 THEN -x ELSE x
Sign(x) == IF x < 0 THEN -1 ELSE 1
Max(a, b) == IF a >= b THEN a ELSE b
Min(a, b) == IF a <= b THEN a ELSE b

RECURSIVE SumSeq(_)
SumSeq(s) == IF s = <<>> THEN 0 ELSE Head(s) + SumSeq(Tail(s))

----------------------------------------------------------------------------
(* preprocess_audio *)

MaxLen == 2                      \* longest decoded waveform
SampleValues == {-Unit, 0, Unit \div 2}
SampleRates == {-22050, 0, 8000, 22050}
\* The module binds no name sr before preprocess_audio runs (line 111 binds
\* it only after the call has returned); a program that imports the module,
\* or an interactive session, may have bound one.
ModuleSrValues == {Undefined, Bound(22050)}

RECURSIVE SeqsUpTo(_, _)
SeqsUpTo(S, n) ==
    IF n = 0 THEN {<<>>}
    ELSE LET shorter == SeqsUpTo(S, n - 1)
         IN  shorter \cup {Append(s, x) : s \in {t \in shorter : Len(t) = n - 1}, x \in S}

Waveforms == SeqsUpTo(SampleValues, MaxLen)

\* The stages in the order of the if-statements of preprocess_audio.
StageOrder == <<"trim_silence", "improve_snr", "remove_noise", "normalize",
                "apply_compression">>

StageIndex(stage) == CHOOSE k \in 1..Len(StageOrder) : StageOrder[k] = stage

\* A decoded waveform, and the waveform a stage returns for a given input.
Decoded(samples) == [samples |-> samples, applied |-> <<>>]
Apply(stage, w) == [w EXCEPT !.applied = Append(@, stage)]

\* Variant of After: the two spectral stages exchanged.
After_Swapped(stage) ==
    CASE stage = "trim_silence"      -> "remove_noise"
      [] stage = "remove_noise"      -> "improve_snr"
      [] stage = "improve_snr"       -> "normalize"
      [] stage = "normalize"         -> "apply_compression"
      [] stage = "apply_compression" -> "return"
\* Where control goes after the if-statement of a stage.
After(stage) ==
    IF StageIndex(stage) < Len(StageOrder)
    THEN StageOrder[StageIndex(stage) + 1]
    ELSE "return"

\* Variant of Enabled: the flag is not consulted.
Enabled_Always(stage) == TRUE
\* The test of a stage's if-statement.
Enabled(stage) == cfg[stage]

\* Variant of LoadAccepts: any rate is taken.
LoadAccepts_Any(rate) == TRUE
\* librosa.load resamples to the requested rate; its resampler rejects a
\* rate that is not positive, and the error leaves preprocess_audio.
LoadAccepts(rate) == rate > 0

InitPipeline ==
    /\ pc = "load"
    /\ cfg \in [sr : SampleRates, trim_silence : BOOLEAN, improve_snr : BOOLEAN,
                remove_noise : BOOLEAN, normalize : BOOLEAN,
                apply_compression : BOOLEAN]
    /\ loaded = Idle
    /\ audio = Idle
    /\ sr = cfg.sr
    /\ module_sr \in ModuleSrValues
    /\ started = <<>>
    /\ finished = <<>>
    /\ D = Idle /\ mag = Idle /\ phase = Idle /\ p = Idle /\ noise_spec = Idle /\ mag_subtracted = Idle
    /\ H = Idle /\ mag_filtered = Idle /\ thresh = Idle /\ gated = Idle
    /\ args = Idle /\ alpha_a = Idle /\ alpha_r = Idle /\ i = Idle
    /\ env = Idle /\ gain_db = Idle /\ gain_linear = Idle /\ result = Idle

\* line 10: audio, sr = librosa.load(file_path, sr=sr)
Load ==
    /\ pc = "load"
    /\ IF LoadAccepts(cfg.sr)
       THEN \E samples \in Waveforms :
               /\ audio' = Decoded(samples)
               /\ loaded' = [audio |-> Decoded(samples), sr |-> cfg.sr]
               /\ pc' = StageOrder[1]
       ELSE /\ pc' = "raised"
            /\ UNCHANGED <<audio, loaded>>
    /\ UNCHANGED <<cfg, sr, module_sr, started, finished, result>>
    /\ UNCHANGED spectralVars /\ UNCHANGED compressorVars

\* lines 12-22: if <flag>: audio = <stage>(audio), for the four stages that
\* take every name they read as an argument.
RunStage(stage) ==
    /\ pc = stage
    /\ IF Enabled(stage)
       THEN /\ started' = Append(started, [stage |-> stage, input |-> audio])
            /\ audio' = Apply(stage, audio)
            /\ finished' = Append(finished, [stage |-> stage, output |-> audio'])
       ELSE UNCHANGED <<started, finished, audio>>
    /\ pc' = After(stage)
    /\ UNCHANGED <<cfg, loaded, sr, module_sr, result>>
    /\ UNCHANGED spectralVars /\ UNCHANGED compressorVars

TrimSilence == RunStage("trim_silence")
ImproveSnr == RunStage("improve_snr")
RemoveNoise == RunStage("remove_noise")
Normalize == RunStage("normalize")

\* lines 24-25: if apply_compression: audio = apply_dynamic_compression(audio).
\* The callee reads the name sr (lines 95-96), which is neither a parameter
\* nor a local of it: the read raises NameError unless the module namespace
\* binds sr.
ApplyCompression ==
    /\ pc = "apply_compression"
    /\ IF Enabled("apply_compression")
       THEN /\ started' = Append(started, [stage |-> "apply_compression", input |-> audio])
            /\ IF module_sr = Undefined
               THEN /\ pc' = "raised"
                    /\ UNCHANGED <<audio, finished>>
               ELSE /\ pc' = After("apply_compression")
                    /\ audio' = Apply("apply_compression", audio)
                    /\ finished' = Append(finished, [stage |-> "apply_compression",
                                                      output |-> audio'])
       ELSE /\ pc' = After("apply_compression")
            /\ UNCHANGED <<started, finished, audio>>
    /\ UNCHANGED <<cfg, loaded, sr, module_sr, result>>
    /\ UNCHANGED spectralVars /\ UNCHANGED compressorVars

\* line 27: return audio, sr
Return ==
    /\ pc = "return"
    /\ result' = [audio |-> audio, sr |-> sr]
    /\ pc' = "done"
    /\ UNCHANGED pipelineVars
    /\ UNCHANGED spectralVars /\ UNCHANGED compressorVars

NextPipeline ==
    \/ Load
    \/ TrimSilence
    \/ ImproveSnr
    \/ RemoveNoise
    \/ Normalize
    \/ ApplyCompression
    \/ Return

Spec == InitPipeline /\ [][NextPipeline]_vars

----------------------------------------------------------------------------
(* Fractions: the value num/den; den = 0 is NaN, the mean of no values *)

Frac(n, d) == [num |-> n, den |-> d]
NaN == Frac(0, 0)
IsNaN(f) == f.den = 0
\* IEEE comparison: false as soon as one side is NaN.
FracLeq(a, b) == ~IsNaN(a) /\ ~IsNaN(b) /\ a.num * b.den <= b.num * a.den

\* np.mean of a one-dimensional slice.
Mean(s) == Frac(SumSeq(s), Len(s))

RECURSIVE Insert(_, _)
Insert(x, s) ==
    IF s = <<>> THEN <<x>>
    ELSE IF x <= Head(s) THEN <<x>> \o s
    ELSE <<Head(s)>> \o Insert(x, Tail(s))

\* np.sort along the frame axis, for one bin.
RECURSIVE SortAsc(_)
SortAsc(s) == IF s = <<>> THEN <<>> ELSE Insert(Head(s), SortAsc(Tail(s)))

RECURSIVE MinSeq(_)
MinSeq(s) == IF Len(s) = 1 THEN Head(s) ELSE Min(Head(s), MinSeq(Tail(s)))

Grids(nbins, nframes, values) == [1..nbins -> [1..nframes -> values]]
NumBins(grid) == Len(grid)
NumFrames(grid) == Len(grid[1])

----------------------------------------------------------------------------
(* estimate_noise_spectrum *)

MaxBins == 2                     \* most frequency bins of a drawn spectrogram
EstMaxFrames == 4                \* most frames of a spectrogram given to the estimator
DefaultP == 15                   \* p=0.15, in percent
MagValues == {0, 1, 3}
Percentiles == {DefaultP, 30, 50, 100}

\* lines 63-64: n_noise_frames = int(n_frames * p), with p in percent and
\* the product taken exactly.
NoiseFrameCount(n_frames, pct) == (n_frames * pct) \div 100

\* lines 62-66, for the whole grid: one mean per bin over the
\* n_noise_frames lowest magnitudes of the bin.
estimate_noise_spectrum(mag_spec, pct) ==
    [b \in 1..NumBins(mag_spec) |->
        LET sorted_mag == SortAsc(mag_spec[b])
            n_noise_frames == NoiseFrameCount(Len(sorted_mag), pct)
        IN  Mean(SubSeq(sorted_mag, 1, n_noise_frames))]

IdleOrchestrator ==
    /\ cfg = Idle /\ loaded = Idle /\ sr = Idle /\ started = <<>> /\ finished = <<>>

IdlePipeline == IdleOrchestrator /\ audio = Idle /\ module_sr = Undefined

IdleCompressor ==
    /\ args = Idle /\ alpha_a = Idle /\ alpha_r = Idle /\ i = Idle
    /\ env = Idle /\ gain_db = Idle /\ gain_linear = Idle

InitEstimator ==
    /\ pc = "estimate"
    /\ \E nb \in 1..MaxBins, nf \in 1..EstMaxFrames : mag \in Grids(nb, nf, MagValues)
    /\ p \in Percentiles
    /\ D = Idle /\ phase = Idle /\ noise_spec = Idle /\ mag_subtracted = Idle
    /\ H = Idle /\ mag_filtered = Idle /\ thresh = Idle /\ gated = Idle
    /\ result = Idle
    /\ IdlePipeline /\ IdleCompressor

\* lines 57-66: noise_estimate is computed and returned.
EstimateNoise ==
    /\ pc = "estimate"
    /\ noise_spec' = estimate_noise_spectrum(mag, p)
    /\ result' = noise_spec'
    /\ pc' = "done"
    /\ UNCHANGED <<D, mag, phase, p, mag_subtracted, H, mag_filtered, thresh, gated>>
    /\ UNCHANGED pipelineVars /\ UNCHANGED compressorVars

NextEstimator == EstimateNoise

SpecEstimator == InitEstimator /\ [][NextEstimator]_vars

\* C6 (as claimed): for a spectrogram with at least one frame and a percentile
\* in (0, 1], at least one frame is averaged in every bin and every bin's
\* estimate is a defined number that is not negative.
C6_NeverAveragesZeroValues ==
    pc = "done" =>
        /\ NoiseFrameCount(NumFrames(mag), p) >= 1
        /\ \A b \in 1..NumBins(mag) : ~IsNaN(result[b]) /\ result[b].num >= 0

\* C7 (as claimed): for a fixed spectrogram, the estimate at a percentile is
\* at most the estimate at any larger percentile, in every bin.
C7_EstimateMonotoneInPercentile ==
    pc = "done" =>
        \A q \in Percentiles :
            p <= q =>
                \A b \in 1..NumBins(mag) :
                    FracLeq(result[b], estimate_noise_spectrum(mag, q)[b])

----------------------------------------------------------------------------
(* improve_signal_to_noise, lines 35-49 *)
(* D is what librosa.stft returned; what is handed to librosa.istft and    *)
(* scipy.signal.medfilt is D_enhanced.  Every bin is processed on its own  *)
(* (noise_spec[:, np.newaxis] broadcasts along the frames), so one bin is  *)
(* drawn.                                                                  *)

SnrMaxFrames == 14               \* most frames of a spectrogram given to the SNR improver
Eps == 1                         \* the 1e-6 of line 45, in units of 1/Unit^2
SpectrumValues == {-2, 0, 1}
SnrSpectrumValues == {-2, 0}

\* Variant of Subtract: the difference without np.maximum.
Subtract_NoClamp(m, noise) ==
    IF IsNaN(noise) THEN NaN ELSE Frac(m * noise.den - noise.num, noise.den)
\* line 42, one cell: np.maximum(mag - noise, 0); NaN in, NaN out.
Subtract(m, noise) ==
    IF IsNaN(noise) THEN NaN ELSE Frac(Max(m * noise.den - noise.num, 0), noise.den)

\* line 45, one cell: sub^2 / (sub^2 + noise^2 + 1e-6), sub and noise over
\* the same denominator.
WienerGain(sub, noise) ==
    IF IsNaN(sub) \/ IsNaN(noise) THEN NaN
    ELSE Frac(sub.num * sub.num,
              sub.num * sub.num + noise.num * noise.num + Eps * noise.den * noise.den)

\* line 46, one cell: mag * H.
Filtered(m, h) == IF IsNaN(h) THEN NaN ELSE Frac(m * h.num, h.den)

InitSnr ==
    /\ pc = "analyze"
    /\ \E nf \in 1..SnrMaxFrames : D \in Grids(1, nf, SnrSpectrumValues)
    /\ mag = Idle /\ phase = Idle /\ p = Idle /\ noise_spec = Idle
    /\ mag_subtracted = Idle /\ H = Idle /\ mag_filtered = Idle
    /\ thresh = Idle /\ gated = Idle /\ result = Idle
    /\ IdlePipeline /\ IdleCompressor

\* lines 35-36 and 73-74: mag = np.abs(D); phase = np.angle(D)
Analyze(next) ==
    /\ pc = "analyze"
    /\ mag' = [b \in DOMAIN D |-> [f \in DOMAIN D[b] |-> Abs(D[b][f])]]
    /\ phase' = [b \in DOMAIN D |-> [f \in DOMAIN D[b] |-> Sign(D[b][f])]]
    /\ pc' = next
    /\ UNCHANGED <<D, p, noise_spec, mag_subtracted, H, mag_filtered, thresh, gated,
                   result>>
    /\ UNCHANGED pipelineVars /\ UNCHANGED compressorVars

SnrAnalyze == Analyze("noise")

\* line 39: noise_spec = estimate_noise_spectrum(mag), p at its default
SnrEstimateNoise ==
    /\ pc = "noise"
    /\ p' = DefaultP
    /\ noise_spec' = estimate_noise_spectrum(mag, DefaultP)
    /\ pc' = "subtract"
    /\ UNCHANGED <<D, mag, phase, mag_subtracted, H, mag_filtered, thresh, gated, result>>
    /\ UNCHANGED pipelineVars /\ UNCHANGED compressorVars

\* line 42
SpectralSubtraction ==
    /\ pc = "subtract"
    /\ mag_subtracted' =
         [b \in DOMAIN mag |-> [f \in DOMAIN mag[b] |-> Subtract(mag[b][f], noise_spec[b])]]
    /\ pc' = "wiener"
    /\ UNCHANGED <<D, mag, phase, p, noise_spec, H, mag_filtered, thresh, gated, result>>
    /\ UNCHANGED pipelineVars /\ UNCHANGED compressorVars

\* lines 45-46
WienerFilter ==
    /\ pc = "wiener"
    /\ H' = [b \in DOMAIN mag |->
               [f \in DOMAIN mag[b] |-> WienerGain(mag_subtracted[b][f], noise_spec[b])]]
    /\ mag_filtered' =
         [b \in DOMAIN mag |-> [f \in DOMAIN mag[b] |-> Filtered(mag[b][f], H'[b][f])]]
    /\ pc' = "reconstruct"
    /\ UNCHANGED <<D, mag, phase, p, noise_spec, mag_subtracted, thresh, gated, result>>
    /\ UNCHANGED pipelineVars /\ UNCHANGED compressorVars

\* line 49: D_enhanced = mag_filtered * np.exp(1j * phase)
SnrReconstruct ==
    /\ pc = "reconstruct"
    /\ result' = [b \in DOMAIN mag |->
                    [f \in DOMAIN mag[b] |->
                        IF IsNaN(mag_filtered[b][f]) THEN NaN
                        ELSE Frac(mag_filtered[b][f].num * phase[b][f],
                                  mag_filtered[b][f].den)]]
    /\ pc' = "done"
    /\ UNCHANGED spectralVars
    /\ UNCHANGED pipelineVars /\ UNCHANGED compressorVars

NextSnr ==
    \/ SnrAnalyze
    \/ SnrEstimateNoise
    \/ SpectralSubtraction
    \/ WienerFilter
    \/ SnrReconstruct

SpecSnr == InitSnr /\ [][NextSnr]_vars

Cells(grid) == {<<b, f>> : b \in DOMAIN grid, f \in DOMAIN grid[1]}

\* C8: in every bin and frame where the magnitude and the noise estimate are
\* numbers that are not negative, the subtracted magnitude is not negative,
\* the denominator of the Wiener gain is strictly positive, the gain lies in
\* [0, 1], and the filtered magnitude lies between 0 and the magnitude.
C8_SubtractionAndGainBounded ==
    pc = "done" =>
        \A c \in Cells(mag) :
            LET b == c[1]
                f == c[2]
            IN  (~IsNaN(noise_spec[b]) /\ noise_spec[b].num >= 0 /\ mag[b][f] >= 0) =>
                    /\ ~IsNaN(mag_subtracted[b][f])
                    /\ mag_subtracted[b][f].num >= 0
                    /\ H[b][f].den > 0
                    /\ 0 <= H[b][f].num /\ H[b][f].num <= H[b][f].den
                    /\ mag_filtered[b][f].den > 0
                    /\ 0 <= mag_filtered[b][f].num
                    /\ mag_filtered[b][f].num <= mag[b][f] * mag_filtered[b][f].den

\* C8 witness: a run with a positive noise estimate over two frames has one
\* cell above the noise (gain strictly between 0 and 1) and one cell below
\* the noise, where the subtraction is cut off at 0.
C8_Witness ==
    /\ pc = "done"
    /\ noise_spec[1].den >= 2 /\ noise_spec[1].num > 0
    /\ \E f \in DOMAIN mag[1] : 0 < H[1][f].num /\ H[1][f].num < H[1][f].den
    /\ \E f \in DOMAIN mag[1] :
          /\ mag[1][f] * noise_spec[1].den < noise_spec[1].num
          /\ mag_subtracted[1][f].num = 0

----------------------------------------------------------------------------
(* spectral_gate, lines 73-82 *)

GateMaxFrames == 2               \* most frames of a spectrogram given to the gate
ThreshN == 2                     \* thresh_n=2.0

\* line 76: noise_floor = np.mean(np.min(mag, axis=1))
NoiseFloor(grid) == Mean([b \in 1..NumBins(grid) |-> MinSeq(grid[b])])

\* line 77: thresh = thresh_n * noise_floor
Thresh(grid) == Frac(ThreshN * NoiseFloor(grid).num, NoiseFloor(grid).den)

\* Variant of Mask: mag >= thresh.
Mask_AtLeast(m, th) == m * th.den >= th.num
\* line 79, one cell: mask = mag > thresh
Mask(m, th) == m * th.den > th.num

InitGate ==
    /\ pc = "analyze"
    /\ \E nb \in 1..MaxBins, nf \in 1..GateMaxFrames : D \in Grids(nb, nf, SpectrumValues)
    /\ mag = Idle /\ phase = Idle /\ p = Idle /\ noise_spec = Idle
    /\ mag_subtracted = Idle /\ H = Idle /\ mag_filtered = Idle
    /\ thresh = Idle /\ gated = Idle /\ result = Idle
    /\ IdlePipeline /\ IdleCompressor

GateAnalyze == Analyze("threshold")

\* lines 76-77
ComputeThreshold ==
    /\ pc = "threshold"
    /\ thresh' = Thresh(mag)
    /\ pc' = "mask"
    /\ UNCHANGED <<D, mag, phase, p, noise_spec, mag_subtracted, H, mag_filtered, gated,
                   result>>
    /\ UNCHANGED pipelineVars /\ UNCHANGED compressorVars

\* lines 79-82: mag = mag * mask; D = mag * np.exp(1j * phase)
GateMask ==
    /\ pc = "mask"
    /\ gated' = [b \in DOMAIN mag |->
                   [f \in DOMAIN mag[b] |-> IF Mask(mag[b][f], thresh) THEN mag[b][f] ELSE 0]]
    /\ result' = [b \in DOMAIN mag |-> [f \in DOMAIN mag[b] |-> gated'[b][f] * phase[b][f]]]
    /\ pc' = "done"
    /\ UNCHANGED <<D, mag, phase, p, noise_spec, mag_subtracted, H, mag_filtered, thresh>>
    /\ UNCHANGED pipelineVars /\ UNCHANGED compressorVars

NextGate ==
    \/ GateAnalyze
    \/ ComputeThreshold
    \/ GateMask

SpecGate == InitGate /\ [][NextGate]_vars

Below(m, th) == m * th.den < th.num
AllZeroGrid(grid) == \A c \in Cells(grid) : grid[c[1]][c[2]] = 0

\* C9 (as claimed): the threshold is thresh_n times the mean over bins of
\* each bin's minimum; every cell whose magnitude is below the threshold is
\* set to zero and every other cell keeps its magnitude and its phase; an
\* all-zero spectrogram has threshold zero and comes out as it went in.
C9_MaskZeroesBelowKeepsOthers ==
    pc = "done" =>
        /\ thresh = Thresh(mag)
        /\ \A c \in Cells(mag) :
              LET b == c[1]
                  f == c[2]
              IN  IF Below(mag[b][f], thresh)
                  THEN gated[b][f] = 0 /\ result[b][f] = 0
                  ELSE gated[b][f] = mag[b][f] /\ result[b][f] = D[b][f]
        /\ AllZeroGrid(D) => (thresh.num = 0 /\ result = D)

\* C9 (amended): every cell whose magnitude is at or below the threshold is
\* set to zero and every cell whose magnitude is strictly above the threshold
\* keeps its magnitude and its phase; the threshold and the all-zero case are
\* as claimed.
C9_MaskZeroesAtOrBelow ==
    pc = "done" =>
        /\ thresh = Thresh(mag)
        /\ \A c \in Cells(mag) :
              LET b == c[1]
                  f == c[2]
              IN  IF mag[b][f] * thresh.den <= thresh.num
                  THEN gated[b][f] = 0 /\ result[b][f] = 0
                  ELSE gated[b][f] = mag[b][f] /\ result[b][f] = D[b][f]
        /\ AllZeroGrid(D) => (thresh.num = 0 /\ result = D)

\* C9 witness: a gated spectrogram with a non-zero cell zeroed because it is
\* exactly at the threshold and a non-zero cell kept above it.
C9_Witness ==
    /\ pc = "done"
    /\ \E c \in Cells(mag) :
          /\ mag[c[1]][c[2]] > 0
          /\ mag[c[1]][c[2]] * thresh.den = thresh.num
          /\ result[c[1]][c[2]] = 0
    /\ \E c \in Cells(mag) : result[c[1]][c[2]] = D[c[1]][c[2]] /\ D[c[1]][c[2]] # 0

----------------------------------------------------------------------------
(* apply_dynamic_compression *)
(* Here audio is the sample stream itself.  Coefficients are counted in    *)
(* units of 1/AlphaScale, levels in whole dB rounded down, linear gains in *)
(* units of 1/Unit; products are rounded down.                             *)

CompMaxLen == 4                  \* longest waveform given to the compressor
DefaultThreshold == -20          \* threshold=-20
DefaultRatio == 4                \* ratio=4
DefaultAttackMs == 5             \* attack_ms=5
DefaultReleaseMs == 50           \* release_ms=50
SilenceDb == -160                \* 20 * log10(0 + 1e-8)
AlphaScale == 100 * Unit
CompSamples == {-Unit, 0, 30, Unit \div 2}
CompSampleRates == {Undefined, Bound(200), Bound(22050)}
AttackValues == {DefaultAttackMs, 20}
ReleaseValues == {DefaultReleaseMs}
ThresholdValues == {DefaultThreshold, -40}
RatioValues == {DefaultRatio, 2}

\* AlphaScale * exp(-n/d) by the alternating series, term by term.
RECURSIVE ExpSeries(_, _, _, _)
ExpSeries(term, k, n, d) ==
    IF term = 0 THEN 0 ELSE term - ExpSeries((term * n) \div (d * k), k + 1, n, d)

\* lines 91-92, 95-96: np.exp(-1 / (sr * ms / 1000))
Alpha(rate, ms) == ExpSeries(AlphaScale, 1, 1000, rate * ms)

Scaled(alpha, e) == (alpha * e) \div AlphaScale

\* Variant of EnvelopeStep: the attack step blends the previous envelope
\* and the sample by alpha_a.
EnvelopeStep_Blended(prev, x, aa, ar) ==
    IF Abs(x) > prev
    THEN Scaled(aa, prev) + Scaled(AlphaScale - aa, Abs(x))
    ELSE Max(Abs(x), Scaled(ar, prev))
\* lines 99-101, one iteration: env[i] from env[i-1] and audio[i].
EnvelopeStep(prev, x, aa, ar) ==
    Max(Abs(x), IF Abs(x) > prev THEN Scaled(aa, prev) ELSE Scaled(ar, prev))

\* 1000 * 10^(k/20) for k = 0..19: one decade in steps of 1 dB.
DbTable == <<1000, 1122, 1259, 1413, 1585, 1778, 1995, 2239, 2512, 2818,
             3162, 3548, 3981, 4467, 5012, 5623, 6310, 7079, 7943, 8913>>

StepDb(m) ==
    CHOOSE k \in 0..19 : DbTable[k + 1] <= m /\ (k = 19 \/ m < DbTable[k + 2])

\* line 103, one sample: 20 * np.log10(env + 1e-8); the 1e-8 decides the
\* level of a zero envelope only.
EnvDb(e) ==
    IF e = 0 THEN SilenceDb
    ELSE IF e < 10 THEN StepDb(e * 1000) - 60
    ELSE IF e < 100 THEN StepDb(e * 100) - 40
    ELSE IF e < 1000 THEN StepDb(e * 10) - 20
    ELSE StepDb(e)

\* line 104, one sample: np.minimum(0, (threshold - env_db) * (1 - 1/ratio))
GainDb(e_db, threshold, ratio) ==
    Min(0, ((threshold - e_db) * (ratio - 1)) \div ratio)

\* 10^(g/20) in units of 1/Unit.
Pow10Db(g) ==
    LET q == g \div 20
        r == g % 20
    IN  IF q >= 0 THEN DbTable[r + 1] * 10^q ELSE DbTable[r + 1] \div 10^(0 - q)

\* Variant of GainLinear: the sign of the exponent lost.
GainLinear_SignSlip(g) == Pow10Db(0 - g)
\* line 105, one sample: np.power(10, gain_db/20)
GainLinear(g) == Pow10Db(g)

\* line 107, one sample: audio * gain_linear
Amplify(x, gain) == Sign(x) * ((Abs(x) * gain) \div Unit)

InitCompressor ==
    /\ pc = "time_constants"
    /\ \E n \in 1..CompMaxLen : audio \in [1..n -> CompSamples]
    /\ module_sr \in CompSampleRates
    /\ args \in [threshold : ThresholdValues, ratio : RatioValues,
                 attack_ms : AttackValues, release_ms : ReleaseValues]
    /\ alpha_a = Idle /\ alpha_r = Idle /\ i = Idle
    /\ env = Idle /\ gain_db = Idle /\ gain_linear = Idle /\ result = Idle
    /\ IdleOrchestrator
    /\ D = Idle /\ mag = Idle /\ phase = Idle /\ p = Idle /\ noise_spec = Idle
    /\ mag_subtracted = Idle /\ H = Idle /\ mag_filtered = Idle
    /\ thresh = Idle /\ gated = Idle

\* lines 91-96: env = np.zeros_like(audio), then the two coefficients; the
\* name sr is read from the module namespace and raises NameError when it
\* is not bound there.
TimeConstants ==
    /\ pc = "time_constants"
    /\ env' = [k \in DOMAIN audio |-> 0]
    /\ IF module_sr = Undefined
       THEN /\ pc' = "raised"
            /\ UNCHANGED <<alpha_a, alpha_r, i>>
       ELSE /\ alpha_a' = Alpha(ValueOf(module_sr), args.attack_ms)
            /\ alpha_r' = Alpha(ValueOf(module_sr), args.release_ms)
            /\ i' = 1
            /\ pc' = "envelope"
    /\ UNCHANGED <<audio, module_sr, args, gain_db, gain_linear, result>>
    /\ UNCHANGED <<cfg, loaded, sr, started, finished>> /\ UNCHANGED spectralVars

\* lines 98-101: for i in range(1, len(audio)); Python index i is position i + 1.
EnvelopeLoop ==
    /\ pc = "envelope"
    /\ IF i < Len(audio)
       THEN /\ env' = [env EXCEPT ![i + 1] = EnvelopeStep(env[i], audio[i + 1],
                                                          alpha_a, alpha_r)]
            /\ i' = i + 1
            /\ pc' = "envelope"
       ELSE /\ pc' = "gain"
            /\ UNCHANGED <<env, i>>
    /\ UNCHANGED <<audio, module_sr, args, alpha_a, alpha_r, gain_db, gain_linear, result>>
    /\ UNCHANGED <<cfg, loaded, sr, started, finished>> /\ UNCHANGED spectralVars

\* lines 103-105
ComputeGain ==
    /\ pc = "gain"
    /\ gain_db' = [k \in DOMAIN env |-> GainDb(EnvDb(env[k]), args.threshold, args.ratio)]
    /\ gain_linear' = [k \in DOMAIN env |-> GainLinear(gain_db'[k])]
    /\ pc' = "multiply"
    /\ UNCHANGED <<audio, module_sr, args, alpha_a, alpha_r, i, env, result>>
    /\ UNCHANGED <<cfg, loaded, sr, started, finished>> /\ UNCHANGED spectralVars

\* line 107: return audio * gain_linear
CompressReturn ==
    /\ pc = "multiply"
    /\ result' = [k \in DOMAIN audio |-> Amplify(audio[k], gain_linear[k])]
    /\ pc' = "done"
    /\ UNCHANGED <<audio, module_sr, args, alpha_a, alpha_r, i, env, gain_db, gain_linear>>
    /\ UNCHANGED <<cfg, loaded, sr, started, finished>> /\ UNCHANGED spectralVars

NextCompressor ==
    \/ TimeConstants
    \/ EnvelopeLoop
    \/ ComputeGain
    \/ CompressReturn

SpecCompressor == InitCompressor /\ [][NextCompressor]_vars

\* The whole function on other arguments, for comparing two runs.
RECURSIVE EnvelopeOf(_, _, _)
EnvelopeOf(x, aa, ar) ==
    IF Len(x) = 1 THEN <<0>>
    ELSE LET before == EnvelopeOf(SubSeq(x, 1, Len(x) - 1), aa, ar)
         IN  Append(before, EnvelopeStep(before[Len(before)], x[Len(x)], aa, ar))

CompressOf(x, rate, a) ==
    LET e == EnvelopeOf(x, Alpha(rate, a.attack_ms), Alpha(rate, a.release_ms))
    IN  [k \in DOMAIN x |->
            Amplify(x[k], GainLinear(GainDb(EnvDb(e[k]), a.threshold, a.ratio)))]

\* C5: the compressor never amplifies: at every sample of a waveform it has
\* returned, the first one included, the gain is at most 0 dB, the linear
\* gain is at most 1 and the output is no larger in magnitude than the input.
C5_NeverAmplifies ==
    pc = "done" =>
        \A k \in DOMAIN audio :
            /\ gain_db[k] <= 0
            /\ gain_linear[k] <= Unit
            /\ Abs(result[k]) <= Abs(audio[k])

\* C5 witness: a returned waveform whose first sample is non-zero and passes
\* with gain 1 (envelope 0), and with a later sample whose envelope is above
\* the threshold and which comes out strictly smaller.
C5_Witness ==
    /\ pc = "done"
    /\ audio[1] # 0 /\ env[1] = 0 /\ result[1] = audio[1]
    /\ \E k \in DOMAIN audio :
          /\ EnvDb(env[k]) > args.threshold
          /\ Abs(result[k]) < Abs(audio[k])

\* C10: with a positive sample rate, attack and release time, the envelope
\* starts at 0 and from the second sample on equals
\* max(|x[i]|, alpha_r * env[i-1]), so it is at least |x[i]|; an attack step
\* gives exactly |x[i]|; a run on the same waveform with any other attack
\* time gives the same envelope and the same output.
C10_EnvelopeIgnoresAttack ==
    pc = "done" =>
        /\ env[1] = 0
        /\ \A k \in 2..Len(audio) :
              /\ env[k] = Max(Abs(audio[k]), Scaled(alpha_r, env[k - 1]))
              /\ env[k] >= Abs(audio[k])
              /\ Abs(audio[k]) > env[k - 1] => env[k] = Abs(audio[k])
        /\ \A a \in AttackValues :
              LET other == [args EXCEPT !.attack_ms = a]
              IN  /\ EnvelopeOf(audio, Alpha(ValueOf(module_sr), a), alpha_r) = env
                  /\ CompressOf(audio, ValueOf(module_sr), other) = result

\* C10 witness: a returned run with an attack step from a non-zero envelope
\* and, later, a release step that holds the decayed envelope above the sample.
C10_Witness ==
    /\ pc = "done"
    /\ alpha_a # alpha_r
    /\ \E k \in 2..Len(audio) : env[k - 1] > 0 /\ Abs(audio[k]) > env[k - 1]
    /\ \E k \in 2..Len(audio) : env[k] > Abs(audio[k]) /\ env[k] < env[k - 1]

----------------------------------------------------------------------------
(* Claims about preprocess_audio *)

Stages == {StageOrder[k] : k \in 1..Len(StageOrder)}
IsPrefix(a, b) == Len(a) <= Len(b) /\ SubSeq(b, 1, Len(a)) = a
StageNames(log) == [k \in 1..Len(log) |-> log[k].stage]
EnabledStages == SelectSeq(StageOrder, LAMBDA s : cfg[s])
EnabledBefore(stage) ==
    SelectSeq(SubSeq(StageOrder, 1, StageIndex(stage) - 1), LAMBDA s : cfg[s])
AllFlags == \A s \in Stages : cfg[s]
NoFlags == \A s \in Stages : ~cfg[s]
AllZero(samples) == \A k \in 1..Len(samples) : samples[k] = 0

\* C1: for every combination of the five flags the enabled stages are entered
\* in the order trim silence, improve SNR, spectral gate, normalize, compress,
\* each at most once and none skipped; a stage is entered only after the stage
\* before it has returned, and it is given the waveform that stage returned
\* (the first one, the loaded waveform); a run that returns has run every
\* enabled stage exactly once.
C1_FixedStageOrder ==
    /\ IsPrefix(StageNames(started), EnabledStages)
    /\ IsPrefix(StageNames(finished), StageNames(started))
    /\ Len(started) <= Len(finished) + 1
    /\ Len(started) = Len(finished) + 1 => pc = "raised"
    /\ pc \in Stages => StageNames(started) = EnabledBefore(pc)
    /\ \A k \in 1..Len(started) :
          started[k].input = IF k = 1 THEN loaded.audio ELSE finished[k - 1].output
    /\ pc \in {"return", "done"} => StageNames(finished) = EnabledStages
    /\ pc = "done" /\ finished # <<>> => result.audio = finished[Len(finished)].output

\* C1 witness: a run with at least three stages enabled has returned.
C1_Witness ==
    /\ pc = "done"
    /\ Len(finished) >= 3
    /\ cfg.improve_snr /\ cfg.remove_noise

\* C2: a stage whose flag is false leaves the waveform and the sample rate as
\* they were, whatever the other flags are; with all five flags false the
\* returned waveform and sample rate are the loaded ones.
C2_DisabledStageIsIdentity ==
    /\ [][\A s \in Stages : (pc = s /\ ~cfg[s]) => (audio' = audio /\ sr' = sr)]_vars
    /\ [](pc = "done" /\ NoFlags => result = loaded)

\* C2 witness: a run with every flag false has returned the loaded waveform.
C2_Witness ==
    /\ pc = "done"
    /\ NoFlags
    /\ result.audio = loaded.audio
    /\ Len(loaded.audio.samples) > 0

\* C3 (as claimed): with a valid sample rate, all five stages enabled and an
\* all-zero decoded waveform, the run never ends in an error.
C3_AllZeroNeverRaises ==
    (/\ cfg.sr > 0
     /\ AllFlags
     /\ pc # "load"
     /\ Len(loaded.audio.samples) > 0
     /\ AllZero(loaded.audio.samples))
        => pc # "raised"

====
